---- MODULE Spec2Model ----
(***************************************************************************)
(* Model of orc-sys-mcu/src/main.cpp: the shared-state layer of the        *)
(* controller firmware.  These specifications share one state:             *)
(*   SpecTime  the WallClock (globalDateTime), its mutex, the RTC and the  *)
(*             tasks that read, commit and sample it;                      *)
(*   SpecNet   the link state machine of loop(), setupEthernet() and the   *)
(*             gating of the web server and of the NTP cycle;              *)
(*   SpecCfg   the NetworkConfig record, its EEPROM copy and the API       *)
(*             handlers that mutate it.                                    *)
(*   SpecBoot  setup() and setup1() from reset to the startup barrier, and *)
(*             the four tasks setup1 creates;                              *)
(*   SpecPower managePower and statusLEDs with every average of the rails; *)
(*   SpecLock  the xSemaphoreTake / xSemaphoreGive sequences of every      *)
(*             function that takes a mutex;                                *)
(*   SpecRom   saveNetworkConfig and loadNetworkConfig on their own;       *)
(*   SpecBootFair, SpecLockFair                                            *)
(*             SpecBoot and SpecLock with the fairness that liveness       *)
(*             needs.                                                      *)
(* A DateTime is modelled by two of its six fields (year, month); a memcpy *)
(* of a DateTime is two steps, one per field, so that a copy that is not   *)
(* protected by the mutex can be observed half done.                       *)
(***************************************************************************)
EXTENDS Integers, Sequences, FiniteSets, TLC

VARIABLES
  pc,                 \* control point of each task
  dateTimeMutex,      \* "free" or the task that holds the mutex
  globalDateTime,     \* the canonical WallClock
  rtcHW,              \* the time held by the RTC peripheral
  core0setupComplete, core1setupComplete,
  dt, retry, success, currentTime, commitResult,   \* updateGlobalDateTime (core 0)
  callWroteGlobal, callRtcWrites, \* history of the running call of updateGlobalDateTime
  snap, readResult,   \* getGlobalDateTime: the caller's copy and the return value
  sample,             \* manageRTC: `now`, then `currentTime`
  stale,              \* history: "written" when a commit wrote the RTC after
                      \* `sample` was read, "committed" once that commit has
                      \* returned success
  netpc,              \* control point of core 0 in setup() and loop()
  link,               \* the physical link, as eth.linkStatus() reports it
  ethernetConnected,  \* the link state
  networkConfig,      \* the live NetworkConfig
  eeprom,             \* the stored record and its guard byte
  millis,             \* millis()
  ntpUpdateTimestamp, \* time of the last sync cycle
  lastCycle,          \* history: how the latest sync cycle ended
  ev,                 \* the calls the latest step made, in order
  lastApply,          \* history: result of the latest applyNetworkConfig,
                      \* forgotten when the link state becomes Disconnected
  lastPoll,           \* history: what the latest poll of loop() observed
  serialReady,        \* set by setup() once serialMutex exists
  serialMutex,        \* "null", "free" or the context that holds the logging lock
  statusMutex,        \* "null", "free" or the context that holds the HealthStatus lock
  monpc,              \* control points of the tasks statusLEDs and managePower
  railOK,             \* managePower: psuOK, V20OK, V5OK
  avg,                \* managePower: Vpsu, V20, V5 of the latest cycle
  status,             \* the HealthStatus record, as far as managePower writes it
  logged,             \* history: the rails the latest cycle logged a warning for
  wasOK,              \* history: the flags as the latest cycle found them
  run,                \* history: per rail, consecutive cycles out of band so far
  warnings,           \* history: per rail, warnings logged during that run
  todo                \* per context, the lock operations left of the call it is in

timeVars == <<pc, dateTimeMutex, globalDateTime, rtcHW, core0setupComplete,
              core1setupComplete, dt, retry, success, currentTime, commitResult,
              callWroteGlobal, callRtcWrites, snap, readResult, sample, stale>>

netVars == <<netpc, link, ethernetConnected, networkConfig, eeprom, millis,
             ntpUpdateTimestamp, lastCycle, ev, lastApply, lastPoll>>

powerVars == <<railOK, avg, status, logged, wasOK, run, warnings>>

auxVars == <<serialReady, serialMutex, statusMutex, monpc, powerVars, todo>>

vars == <<timeVars, netVars, auxVars>>

----------------------------------------------------------------------------
(* Values *)

DT(y, m) == [year |-> y, month |-> m]

\* A zero-initialised global (globalDateTime before its first write).
ZeroDateTime == DT(0, 0)

\* What an uninitialised stack DateTime may hold besides zeroes.
GarbageDateTime == DT(65535, 255)

\* The times the RTC holds and the API passes: no two share a field, so a
\* record mixing two of them is none of them.
DateTimes == {DT(2024, 1), DT(2025, 2)}

\* updateGlobalDateTime's maxRetries.
maxRetries == 3

Readers == {"core0", "term"}
Tasks == {"core0", "core1", "rtc", "term"}

NoDateTime == DT(-1, -1)

----------------------------------------------------------------------------
(* FreeRTOS mutex with a bounded wait *)

\* xSemaphoreTake(dateTimeMutex, pdMS_TO_TICKS(100)) == pdTRUE
TakeDateTimeMutex(t) ==
  /\ dateTimeMutex = "free"
  /\ dateTimeMutex' = t

\* xSemaphoreTake(...) returning pdFALSE: the mutex stayed held for 100 ms
TimeoutDateTimeMutex(t) ==
  /\ dateTimeMutex \notin {"free", t}
  /\ UNCHANGED dateTimeMutex

\* xSemaphoreGive(dateTimeMutex)
GiveDateTimeMutex(t) ==
  /\ dateTimeMutex = t
  /\ dateTimeMutex' = "free"

----------------------------------------------------------------------------
(* Startup barrier, as far as the WallClock's tasks depend on it.  Init is  *)
(* the state in which core 0 has finished its own setup (line 811) and core *)
(* 1 has created both mutexes and its four tasks (line 869).                *)

TimeInit ==
  /\ pc = [t \in Tasks |->
             CASE t = "core0" -> "barrier"
               [] t = "core1" -> "tasks_created"
               [] t = "rtc"   -> "begin"
               [] t = "term"  -> "wait"]
  /\ dateTimeMutex = "free"
  /\ globalDateTime = ZeroDateTime
  /\ rtcHW \in DateTimes
  /\ core0setupComplete = TRUE
  /\ core1setupComplete = FALSE
  /\ dt = NoDateTime
  /\ retry = 0
  /\ success = FALSE
  /\ currentTime = NoDateTime
  /\ commitResult = "none"
  /\ callWroteGlobal = FALSE
  /\ callRtcWrites = 0
  /\ snap = [t \in Readers |-> NoDateTime]
  /\ readResult = [t \in Readers |-> "none"]
  /\ sample = NoDateTime
  /\ stale = "no"

Goto(t, l) == pc' = [pc EXCEPT ![t] = l]

commitLocals == <<dt, retry, success, currentTime, commitResult,
                  callWroteGlobal, callRtcWrites>>
readLocals == <<snap, readResult>>
flags == <<core0setupComplete, core1setupComplete>>

\* Line 877 left out: setup1 goes to its wait with its flag still false.
Setup1Complete_FlagForgotten ==
  /\ pc["core1"] = "tasks_created"
  /\ Goto("core1", "barrier1")
  /\ UNCHANGED <<netVars, auxVars>>
  /\ UNCHANGED <<dateTimeMutex, globalDateTime, rtcHW, flags,
                 commitLocals, readLocals, sample, stale>>

\* setup1, lines 872-877: core1setupComplete = true.
Setup1Complete ==
  /\ pc["core1"] = "tasks_created"
  /\ core1setupComplete' = TRUE
  /\ Goto("core1", "barrier1")
  /\ UNCHANGED <<netVars, auxVars>>
  /\ UNCHANGED <<dateTimeMutex, globalDateTime, rtcHW, core0setupComplete,
                 commitLocals, readLocals, sample, stale>>

\* setup, line 812: while (!core1setupComplete) delay(100);
Setup0PassBarrier ==
  /\ pc["core0"] = "barrier"
  /\ core1setupComplete
  /\ Goto("core0", "idle")
  /\ UNCHANGED <<netVars, auxVars>>
  /\ UNCHANGED <<dateTimeMutex, globalDateTime, rtcHW, flags,
                 commitLocals, readLocals, sample, stale>>

\* setup1, line 878: while (!core0setupComplete) delay(100);
Setup1PassBarrier ==
  /\ pc["core1"] = "barrier1"
  /\ core0setupComplete
  /\ Goto("core1", "loop1")
  /\ UNCHANGED <<netVars, auxVars>>
  /\ UNCHANGED <<dateTimeMutex, globalDateTime, rtcHW, flags,
                 commitLocals, readLocals, sample, stale>>

\* manageTerminal, line 975: wait for both flags.
TerminalStart ==
  /\ pc["term"] = "wait"
  /\ core1setupComplete /\ core0setupComplete
  /\ Goto("term", "idle")
  /\ UNCHANGED <<netVars, auxVars>>
  /\ UNCHANGED <<dateTimeMutex, globalDateTime, rtcHW, flags,
                 commitLocals, readLocals, sample, stale>>

\* The RTC counts on by itself.
RtcTick ==
  /\ rtcHW' \in DateTimes \ {rtcHW}
  /\ UNCHANGED <<netVars, auxVars>>
  /\ UNCHANGED <<pc, dateTimeMutex, globalDateTime, flags,
                 commitLocals, readLocals, sample, stale>>

----------------------------------------------------------------------------
(* updateGlobalDateTime (commit), called on core 0 by ntpUpdate and by the  *)
(* POST /api/time handler.                                                  *)

\* Lines 661-666: the field-by-field comparison of the read-back.
ReadBackMatches(cur, d) == cur.year = d.year /\ cur.month = d.month

\* The flag left unset after the copy.
SuccessAfterCopy_Forgotten == FALSE

\* Line 669: success = true, set with the memcpy of line 668.
SuccessAfterCopy == TRUE

\* Lines 687-694: the value returned once the mutex is given back.
CommitReturnValue(s) == IF s THEN "ok" ELSE "fail"

\* Line 651: for (retry = 0; retry < maxRetries; ++retry)
AfterFailedAttempt(r) == IF r + 1 < maxRetries THEN "c_set" ELSE "c_give"

\* A caller on core 0 enters updateGlobalDateTime(v).
CommitCall ==
  /\ pc["core0"] = "idle"
  /\ \E v \in DateTimes : dt' = v
  /\ callWroteGlobal' = FALSE
  /\ callRtcWrites' = 0
  /\ commitResult' = "none"
  /\ Goto("core0", "c_take")
  /\ UNCHANGED <<netVars, auxVars>>
  /\ UNCHANGED <<dateTimeMutex, globalDateTime, rtcHW, flags, retry, success,
                 currentTime, readLocals, sample, stale>>

\* Line 649, mutex taken; lines 650-651.
CommitTake ==
  /\ pc["core0"] = "c_take"
  /\ TakeDateTimeMutex("core0")
  /\ success' = FALSE
  /\ retry' = 0
  /\ Goto("core0", "c_set")
  /\ UNCHANGED <<netVars, auxVars>>
  /\ UNCHANGED <<globalDateTime, rtcHW, flags, dt, currentTime, commitResult,
                 callWroteGlobal, callRtcWrites, readLocals, sample, stale>>

\* Line 649 timing out; lines 696-699.
CommitLockTimeout ==
  /\ pc["core0"] = "c_take"
  /\ TimeoutDateTimeMutex("core0")
  /\ commitResult' = "fail"
  /\ Goto("core0", "c_ret_nolock")
  /\ UNCHANGED <<netVars, auxVars>>
  /\ UNCHANGED <<globalDateTime, rtcHW, flags, dt, retry, success, currentTime,
                 callWroteGlobal, callRtcWrites, readLocals, sample, stale>>

\* Line 655: rtc.setDateTime(dt); the write may not take effect.
CommitSetRTC ==
  /\ pc["core0"] = "c_set"
  /\ rtcHW' \in {dt, rtcHW}
  /\ callRtcWrites' = callRtcWrites + 1
  /\ stale' = IF pc["rtc"] = "loop_take" THEN "written" ELSE stale
  /\ Goto("core0", "c_verify")
  /\ UNCHANGED <<netVars, auxVars>>
  /\ UNCHANGED <<dateTimeMutex, globalDateTime, flags, dt, retry, success,
                 currentTime, commitResult, callWroteGlobal, readLocals, sample>>

\* Lines 658-683: rtc.getDateTime(&currentTime) and the comparison.  A failed
\* read is no match.
CommitVerify ==
  /\ pc["core0"] = "c_verify"
  /\ \E ok \in BOOLEAN :
       currentTime' = IF ok THEN rtcHW ELSE NoDateTime
  /\ IF ReadBackMatches(currentTime', dt)
       THEN /\ Goto("core0", "c_wr_year")
            /\ UNCHANGED retry
       ELSE /\ Goto("core0", AfterFailedAttempt(retry))
            /\ retry' = retry + 1
  /\ UNCHANGED <<netVars, auxVars>>
  /\ UNCHANGED <<dateTimeMutex, globalDateTime, rtcHW, flags, dt, success,
                 commitResult, callWroteGlobal, callRtcWrites, readLocals, sample, stale>>

\* Line 668: memcpy(&globalDateTime, &dt, ...), first field.
CommitCopyYear ==
  /\ pc["core0"] = "c_wr_year"
  /\ globalDateTime' = [globalDateTime EXCEPT !.year = dt.year]
  /\ callWroteGlobal' = TRUE
  /\ Goto("core0", "c_wr_month")
  /\ UNCHANGED <<netVars, auxVars>>
  /\ UNCHANGED <<dateTimeMutex, rtcHW, flags, dt, retry, success, currentTime,
                 commitResult, callRtcWrites, readLocals, sample, stale>>

\* Line 668, the remaining fields; lines 669-670: success = true; break.
CommitCopyMonth ==
  /\ pc["core0"] = "c_wr_month"
  /\ globalDateTime' = [globalDateTime EXCEPT !.month = dt.month]
  /\ success' = SuccessAfterCopy
  /\ Goto("core0", "c_give")
  /\ UNCHANGED <<netVars, auxVars>>
  /\ UNCHANGED <<dateTimeMutex, rtcHW, flags, dt, retry, currentTime, commitResult,
                 callWroteGlobal, callRtcWrites, readLocals, sample, stale>>

\* Line 686: xSemaphoreGive; lines 687-694 fix the return value.
CommitGive ==
  /\ pc["core0"] = "c_give"
  /\ GiveDateTimeMutex("core0")
  /\ commitResult' = CommitReturnValue(success)
  /\ Goto("core0", "c_ret")
  /\ UNCHANGED <<netVars, auxVars>>
  /\ UNCHANGED <<globalDateTime, rtcHW, flags, dt, retry, success, currentTime,
                 callWroteGlobal, callRtcWrites, readLocals, sample, stale>>

\* The caller takes the result.
CommitReturn ==
  /\ pc["core0"] \in {"c_ret", "c_ret_nolock"}
  /\ dt' = NoDateTime
  /\ retry' = 0
  /\ success' = FALSE
  /\ currentTime' = NoDateTime
  /\ commitResult' = "none"
  /\ callWroteGlobal' = FALSE
  /\ callRtcWrites' = 0
  /\ stale' = IF stale = "written" /\ commitResult = "ok" THEN "committed"
               ELSE stale
  /\ Goto("core0", "idle")
  /\ UNCHANGED <<netVars, auxVars>>
  /\ UNCHANGED <<dateTimeMutex, globalDateTime, rtcHW, flags, readLocals, sample>>

----------------------------------------------------------------------------
(* getGlobalDateTime (read), called on core 0 by the GET handlers and in    *)
(* the terminal task by osDebugPrint.                                       *)

ReadCall(t) ==
  /\ pc[t] = "idle"
  /\ snap' = [snap EXCEPT ![t] = NoDateTime]
  /\ readResult' = [readResult EXCEPT ![t] = "none"]
  /\ Goto(t, "r_take")
  /\ UNCHANGED <<netVars, auxVars>>
  /\ UNCHANGED <<dateTimeMutex, globalDateTime, rtcHW, flags, commitLocals, sample, stale>>

\* Line 635, mutex taken.
ReadTake(t) ==
  /\ pc[t] = "r_take"
  /\ TakeDateTimeMutex(t)
  /\ Goto(t, "r_cp_year")
  /\ UNCHANGED <<netVars, auxVars>>
  /\ UNCHANGED <<globalDateTime, rtcHW, flags, commitLocals, readLocals, sample, stale>>

\* Line 635 timing out; line 641: return false.
ReadLockTimeout(t) ==
  /\ pc[t] = "r_take"
  /\ TimeoutDateTimeMutex(t)
  /\ readResult' = [readResult EXCEPT ![t] = "fail"]
  /\ Goto(t, "r_ret")
  /\ UNCHANGED <<netVars, auxVars>>
  /\ UNCHANGED <<globalDateTime, rtcHW, flags, commitLocals, snap, sample, stale>>

\* Line 637: memcpy(&dt, &globalDateTime, ...), first field.
ReadCopyYear(t) ==
  /\ pc[t] = "r_cp_year"
  /\ snap' = [snap EXCEPT ![t].year = globalDateTime.year]
  /\ Goto(t, "r_cp_month")
  /\ UNCHANGED <<netVars, auxVars>>
  /\ UNCHANGED <<dateTimeMutex, globalDateTime, rtcHW, flags, commitLocals,
                 readResult, sample, stale>>

\* Line 637, the remaining fields.
ReadCopyMonth(t) ==
  /\ pc[t] = "r_cp_month"
  /\ snap' = [snap EXCEPT ![t].month = globalDateTime.month]
  /\ Goto(t, "r_give")
  /\ UNCHANGED <<netVars, auxVars>>
  /\ UNCHANGED <<dateTimeMutex, globalDateTime, rtcHW, flags, commitLocals,
                 readResult, sample, stale>>

\* Lines 638-639: xSemaphoreGive; return true.
ReadGive(t) ==
  /\ pc[t] = "r_give"
  /\ GiveDateTimeMutex(t)
  /\ readResult' = [readResult EXCEPT ![t] = "ok"]
  /\ Goto(t, "r_ret")
  /\ UNCHANGED <<netVars, auxVars>>
  /\ UNCHANGED <<globalDateTime, rtcHW, flags, commitLocals, snap, sample, stale>>

\* The caller takes the snapshot.
ReadReturn(t) ==
  /\ pc[t] = "r_ret"
  /\ snap' = [snap EXCEPT ![t] = NoDateTime]
  /\ readResult' = [readResult EXCEPT ![t] = "none"]
  /\ Goto(t, "idle")
  /\ UNCHANGED <<netVars, auxVars>>
  /\ UNCHANGED <<dateTimeMutex, globalDateTime, rtcHW, flags, commitLocals, sample, stale>>

----------------------------------------------------------------------------
(* manageRTC: the clock task.                                               *)

\* Lines 940-944: rtc.begin(); on failure the task function returns.
RtcBegin ==
  /\ pc["rtc"] = "begin"
  /\ \E ok \in BOOLEAN : Goto("rtc", IF ok THEN "init_read" ELSE "exit")
  /\ UNCHANGED <<netVars, auxVars>>
  /\ UNCHANGED <<dateTimeMutex, globalDateTime, rtcHW, flags, commitLocals,
                 readLocals, sample, stale>>

\* Lines 947-948: DateTime now; rtc.getDateTime(&now), its result ignored:
\* after a failed read `now` holds whatever the stack held.
RtcInitRead ==
  /\ pc["rtc"] = "init_read"
  /\ sample' \in {rtcHW, ZeroDateTime, GarbageDateTime}
  /\ stale' = "no"
  /\ Goto("rtc", "init_wr_year")
  /\ UNCHANGED <<netVars, auxVars>>
  /\ UNCHANGED <<dateTimeMutex, globalDateTime, rtcHW, flags, commitLocals,
                 readLocals>>

\* Line 949: memcpy(&globalDateTime, &now, ...) with no mutex, first field.
RtcInitCopyYear ==
  /\ pc["rtc"] = "init_wr_year"
  /\ globalDateTime' = [globalDateTime EXCEPT !.year = sample.year]
  /\ Goto("rtc", "init_wr_month")
  /\ UNCHANGED <<netVars, auxVars>>
  /\ UNCHANGED <<dateTimeMutex, rtcHW, flags, commitLocals, readLocals, sample, stale>>

\* Line 949, the remaining fields.
RtcInitCopyMonth ==
  /\ pc["rtc"] = "init_wr_month"
  /\ globalDateTime' = [globalDateTime EXCEPT !.month = sample.month]
  /\ sample' = NoDateTime
  /\ stale' = "no"
  /\ Goto("rtc", "loop_read")
  /\ UNCHANGED <<netVars, auxVars>>
  /\ UNCHANGED <<dateTimeMutex, rtcHW, flags, commitLocals, readLocals>>

\* Lines 958-959 and 968: the periodic read; a failed read skips the cycle.
RtcSampleRead ==
  /\ pc["rtc"] = "loop_read"
  /\ \E ok \in BOOLEAN :
       IF ok THEN sample' = rtcHW /\ stale' = "no" /\ Goto("rtc", "loop_take")
             ELSE UNCHANGED <<sample, stale, pc>>
  /\ UNCHANGED <<netVars, auxVars>>
  /\ UNCHANGED <<dateTimeMutex, globalDateTime, rtcHW, flags, commitLocals,
                 readLocals>>

\* Line 962, mutex taken.
RtcSampleTake ==
  /\ pc["rtc"] = "loop_take"
  /\ TakeDateTimeMutex("rtc")
  /\ Goto("rtc", "loop_wr_year")
  /\ UNCHANGED <<netVars, auxVars>>
  /\ UNCHANGED <<globalDateTime, rtcHW, flags, commitLocals, readLocals, sample, stale>>

\* Line 962 timing out: the cycle is skipped; line 968.
RtcSampleLockTimeout ==
  /\ pc["rtc"] = "loop_take"
  /\ TimeoutDateTimeMutex("rtc")
  /\ sample' = NoDateTime
  /\ stale' = "no"
  /\ Goto("rtc", "loop_read")
  /\ UNCHANGED <<netVars, auxVars>>
  /\ UNCHANGED <<globalDateTime, rtcHW, flags, commitLocals, readLocals>>

\* Line 964: memcpy(&globalDateTime, &currentTime, ...), first field.
RtcSampleCopyYear ==
  /\ pc["rtc"] = "loop_wr_year"
  /\ globalDateTime' = [globalDateTime EXCEPT !.year = sample.year]
  /\ Goto("rtc", "loop_wr_month")
  /\ UNCHANGED <<netVars, auxVars>>
  /\ UNCHANGED <<dateTimeMutex, rtcHW, flags, commitLocals, readLocals, sample, stale>>

\* Line 964, the remaining fields.
RtcSampleCopyMonth ==
  /\ pc["rtc"] = "loop_wr_month"
  /\ globalDateTime' = [globalDateTime EXCEPT !.month = sample.month]
  /\ Goto("rtc", "loop_give")
  /\ UNCHANGED <<netVars, auxVars>>
  /\ UNCHANGED <<dateTimeMutex, rtcHW, flags, commitLocals, readLocals, sample, stale>>

\* Lines 965 and 968: xSemaphoreGive, then the 1000 ms delay.
RtcSampleGive ==
  /\ pc["rtc"] = "loop_give"
  /\ GiveDateTimeMutex("rtc")
  /\ sample' = NoDateTime
  /\ stale' = "no"
  /\ Goto("rtc", "loop_read")
  /\ UNCHANGED <<netVars, auxVars>>
  /\ UNCHANGED <<globalDateTime, rtcHW, flags, commitLocals, readLocals>>

----------------------------------------------------------------------------

TimeNext ==
  \/ Setup1Complete \/ Setup1PassBarrier \/ Setup0PassBarrier
  \/ TerminalStart \/ RtcTick
  \/ CommitCall \/ CommitTake \/ CommitLockTimeout \/ CommitSetRTC
  \/ CommitVerify \/ CommitCopyYear \/ CommitCopyMonth \/ CommitGive
  \/ CommitReturn
  \/ \E t \in Readers :
       \/ ReadCall(t) \/ ReadTake(t) \/ ReadLockTimeout(t) \/ ReadCopyYear(t)
       \/ ReadCopyMonth(t) \/ ReadGive(t) \/ ReadReturn(t)
  \/ RtcBegin \/ RtcInitRead \/ RtcInitCopyYear \/ RtcInitCopyMonth
  \/ RtcSampleRead \/ RtcSampleTake \/ RtcSampleLockTimeout
  \/ RtcSampleCopyYear \/ RtcSampleCopyMonth \/ RtcSampleGive


----------------------------------------------------------------------------
(* Claims about the WallClock, checked under SpecTime.                      *)

\* A DateTime as one writer wrote it: the zero-initialised global, a time of
\* the RTC or of a caller, or the uninitialised `now` of line 947.
WholeValues == DateTimes \cup {ZeroDateTime, GarbageDateTime}

\* C1: a commit that took the mutex and read back the value it wrote returns
\* success, and globalDateTime equals that value when the mutex is given back.
C1_VerifiedCommitIsVisible ==
  /\ (pc["core0"] = "c_give" /\ success) => globalDateTime = dt
  /\ (pc["core0"] = "c_ret" /\ ReadBackMatches(currentTime, dt))
       => commitResult = "ok"

\* C2: a commit that returns failure has not written globalDateTime; after a
\* lock timeout it has issued no RTC write, otherwise exactly maxRetries.
C2_FailedCommitLeavesGlobal ==
  /\ pc["core0"] = "c_ret_nolock"
       => commitResult = "fail" /\ ~callWroteGlobal /\ callRtcWrites = 0
  /\ (pc["core0"] = "c_ret" /\ commitResult = "fail")
       => ~callWroteGlobal /\ callRtcWrites = maxRetries

C2_Witness ==
  /\ pc["core0"] = "c_ret"
  /\ commitResult = "fail"
  /\ callRtcWrites = maxRetries
  /\ globalDateTime \in DateTimes

\* C3: every snapshot a successful read returns is one whole value, never a
\* mix of the fields of two writes.
C3_SnapshotsAreWhole ==
  \A t \in Readers : readResult[t] = "ok" => snap[t] \in WholeValues

\* C4: every step that changes globalDateTime is taken by the task that
\* holds dateTimeMutex.
C4_WritesHoldMutex ==
  [][globalDateTime' # globalDateTime
       => /\ dateTimeMutex \in Tasks
          /\ pc'[dateTimeMutex] # pc[dateTimeMutex]]_vars

----------------------------------------------------------------------------
(* NetworkConfig and its stored copy.  ntpServer is written wherever        *)
(* hostname is, and mqttPort and mqttUsername wherever mqttBroker is: the   *)
(* record keeps one field of each kind.                                     *)

\* The global NetworkConfig before setupEthernet has run.
ZeroConfig ==
  [useDHCP |-> FALSE, ip |-> "0.0.0.0", subnet |-> "0.0.0.0",
   gateway |-> "0.0.0.0", dns |-> "0.0.0.0", timezone |-> "",
   hostname |-> "", ntpEnabled |-> FALSE, dstEnabled |-> FALSE,
   mqttBroker |-> ""]

\* Lines 189-198: the defaults, set field by field on the record as it is.
WithDefaults(cfg) ==
  [cfg EXCEPT !.ntpEnabled = FALSE, !.useDHCP = TRUE,
              !.ip = "192.168.1.100", !.subnet = "255.255.255.0",
              !.gateway = "192.168.1.1", !.dns = "8.8.8.8",
              !.timezone = "+13:00", !.hostname = "open-reactor",
              !.dstEnabled = FALSE]

\* Strings IPAddress::fromString accepts, among those the requests carry.
ValidAddresses == {"10.0.0.2"}

\* IPAddress::fromString: whether the string parses.
FromStringOk(s) == s \in ValidAddresses

\* Line 138: the guard byte is compared with EE_MAGIC_NUMBER.
GuardMatches(rom) == rom.magic = "EE_MAGIC_NUMBER"

\* Lines 132-143, loadNetworkConfig: the result and the live record after it.
LoadNetworkConfig(cfg, rom) ==
  IF GuardMatches(rom) THEN [ok |-> TRUE, cfg |-> rom.cfg]
                       ELSE [ok |-> FALSE, cfg |-> cfg]

\* EEPROM.update(0, EE_MAGIC_NUMBER) of line 152 left out.
SaveNetworkConfig_NoGuard(cfg) == [magic |-> "erased", cfg |-> cfg]

\* Lines 146-155, saveNetworkConfig: the stored record after it.
SaveNetworkConfig(cfg) == [magic |-> "EE_MAGIC_NUMBER", cfg |-> cfg]

\* eth.begin() with its result.
Begin(b) == IF b THEN "eth.begin:ok" ELSE "eth.begin:fail"

\* The fallback of lines 168-171 left out: a failed DHCP attempt is final.
ApplyNetworkConfig_NoFallback(cfg, b1, b2) ==
  IF cfg.useDHCP
    THEN [ok |-> b1, ev |-> <<"eth.end", Begin(b1)>>]
    ELSE [ok |-> b1, ev |-> <<"eth.config:static", Begin(b1)>>]

\* Lines 158-180, applyNetworkConfig, b1 and b2 being the results of the
\* first and of the second eth.begin(): the calls made and the result.
ApplyNetworkConfig(cfg, b1, b2) ==
  IF cfg.useDHCP
    THEN IF b1 THEN [ok |-> TRUE, ev |-> <<"eth.end", Begin(b1)>>]
         ELSE [ok |-> b2,
               ev |-> <<"eth.end", Begin(b1), "eth.config:192.168.1.10",
                        Begin(b2)>>]
    ELSE [ok |-> b1, ev |-> <<"eth.config:static", Begin(b1)>>]

ApplyEvent(ok) == IF ok THEN "apply.ok" ELSE "apply.fail"

----------------------------------------------------------------------------
(* Remote time synchronisation: ntpUpdate and handleNTPUpdates.  Time is    *)
(* counted in units of NTP_MIN_SYNC_INTERVAL / 2.                           *)

\* sys_init.h: the hard minimum between two sync cycles.
NTP_MIN_SYNC_INTERVAL == 2

\* sys_init.h: the interval after which a cycle is due.
NTP_UPDATE_INTERVAL == 4

\* How far millis() is followed.
MaxMillis == 6

\* Times the time source is asked again after the first failure (line 65).
NtpRetries == 3

\* Line 60: if (!eth.linkStatus()) return; the link counts as up when the
\* link layer reports LinkON.
LinkIsUp(l) == l = "LinkON"

RECURSIVE Repeat(_, _)
Repeat(e, n) == IF n = 0 THEN <<>> ELSE <<e>> \o Repeat(e, n - 1)

\* The loop of line 65 running once more than it does.
NtpUpdate_OneMoreRetry(l) ==
  IF ~LinkIsUp(l) THEN {<<>>}
  ELSE {Repeat("ntp.query.fail", k) \o <<"ntp.query.ok", c>> :
          k \in 0..(1 + NtpRetries), c \in {"commit.ok", "commit.fail"}}
       \cup {Repeat("ntp.query.fail", 2 + NtpRetries)}

\* Lines 47-98, ntpUpdate: the calls one cycle may make.  The first query and
\* up to NtpRetries more; after a query that succeeds the time is committed
\* and updateGlobalDateTime succeeds or fails.
NtpUpdate(l) ==
  IF ~LinkIsUp(l) THEN {<<>>}
  ELSE {Repeat("ntp.query.fail", k) \o <<"ntp.query.ok", c>> :
          k \in 0..NtpRetries, c \in {"commit.ok", "commit.fail"}}
       \cup {Repeat("ntp.query.fail", 1 + NtpRetries)}

\* The check of line 108 made only for cycles that are not forced.
HandleNTPUpdates_ForceSkipsMinimum(force, cfg, ms, ts, l) ==
  IF ~cfg.ntpEnabled THEN {[ev |-> <<>>, ts |-> ts]}
  ELSE IF force \/ ms - ts > NTP_UPDATE_INTERVAL
    THEN {[ev |-> <<"ntp.cycle">> \o e, ts |-> ms] : e \in NtpUpdate(l)}
    ELSE {[ev |-> <<>>, ts |-> ts]}

\* Lines 100-115, handleNTPUpdates(force): the calls made and the timestamp
\* afterwards.
HandleNTPUpdates(force, cfg, ms, ts, l) ==
  IF ~cfg.ntpEnabled THEN {[ev |-> <<>>, ts |-> ts]}
  ELSE LET timeSinceLastUpdate == ms - ts IN
       IF timeSinceLastUpdate > NTP_UPDATE_INTERVAL \/ force
         THEN IF timeSinceLastUpdate < NTP_MIN_SYNC_INTERVAL
                THEN {[ev |-> <<"ntp.skip">>, ts |-> ts]}
                ELSE {[ev |-> <<"ntp.cycle">> \o e, ts |-> ms] : e \in NtpUpdate(l)}
         ELSE {[ev |-> <<>>, ts |-> ts]}

\* How the cycle among the calls e ended (lines 60, 62-75, 77-97); last when
\* e holds no cycle.
CycleOutcome(e, last) ==
  IF \A i \in 1..Len(e) : e[i] # "ntp.cycle" THEN last
  ELSE IF \E i \in 1..Len(e) : e[i] = "ntp.query.ok" THEN "synced"
  ELSE IF \E i \in 1..Len(e) : e[i] = "ntp.query.fail" THEN "gave_up"
  ELSE "no_link"

----------------------------------------------------------------------------
(* The API handlers, each as the set of its outcomes: the live record, the  *)
(* stored record and the sync timestamp afterwards, and the calls made.     *)

Outcome(cfg, rom, ts, e) == [cfg |-> cfg, rom |-> rom, ts |-> ts, ev |-> e]

\* A POST /api/network body: present or not, parsing or not, and its keys.
NetworkRequest(body, json, mode, ip, subnet, gateway, dns, hostname, dst) ==
  [body |-> body, json |-> json, mode |-> mode, ip |-> ip, subnet |-> subnet,
   gateway |-> gateway, dns |-> dns, hostname |-> hostname, dst |-> dst]

\* POST /api/network bodies: none, unparsable, DHCP, and static with every
\* choice of well-formed and malformed addresses.
NetworkRequests ==
  {NetworkRequest(FALSE, FALSE, "dhcp", "bad", "bad", "bad", "bad", "absent", FALSE),
   NetworkRequest(TRUE, FALSE, "dhcp", "bad", "bad", "bad", "bad", "absent", FALSE)}
  \cup
  {NetworkRequest(TRUE, TRUE, "dhcp", "bad", "bad", "bad", "bad", h, d) :
     h \in {"absent", "reactor-2"}, d \in BOOLEAN}
  \cup
  {NetworkRequest(TRUE, TRUE, "static", "10.0.0.2", "10.0.0.2", "10.0.0.2",
                  "10.0.0.2", h, d) :
     h \in {"absent", "reactor-2"}, d \in BOOLEAN}
  \cup
  {NetworkRequest(TRUE, TRUE, "static", i, s, g, n, "absent", FALSE) :
     i \in {"10.0.0.2", "bad"}, s \in {"10.0.0.2", "bad"},
     g \in {"10.0.0.2", "bad"}, n \in {"10.0.0.2", "bad"}}

\* The network requests followed in SpecNet: both are accepted.
NetworkRequestsNet ==
  {NetworkRequest(TRUE, TRUE, "dhcp", "bad", "bad", "bad", "bad", "absent", FALSE),
   NetworkRequest(TRUE, TRUE, "static", "10.0.0.2", "10.0.0.2", "10.0.0.2",
                  "10.0.0.2", "absent", FALSE)}

\* Lines 325-342: hostname, NTP server and DST, save, respond, reboot.
PostNetworkAccept(req, cfg, ts) ==
  LET c == [cfg EXCEPT
              !.hostname = IF req.hostname = "absent" THEN "open-reactor"
                           ELSE req.hostname,
              !.dstEnabled = req.dst]
  IN Outcome(c, SaveNetworkConfig(c), ts, <<"save", "send.200", "reboot">>)

\* Lines 280-343, POST /api/network.
PostNetwork(req, cfg, rom, ts) ==
  IF ~req.body \/ ~req.json THEN Outcome(cfg, rom, ts, <<"send.400">>)
  ELSE
  LET c0 == [cfg EXCEPT !.useDHCP = (req.mode = "dhcp")]
      c1 == [c0 EXCEPT !.ip = req.ip]
      c2 == [c1 EXCEPT !.subnet = req.subnet]
      c3 == [c2 EXCEPT !.gateway = req.gateway]
      c4 == [c3 EXCEPT !.dns = req.dns]
  IN IF c0.useDHCP THEN PostNetworkAccept(req, c0, ts)
     ELSE IF ~FromStringOk(req.ip) THEN Outcome(c0, rom, ts, <<"send.400">>)
     ELSE IF ~FromStringOk(req.subnet) THEN Outcome(c1, rom, ts, <<"send.400">>)
     ELSE IF ~FromStringOk(req.gateway) THEN Outcome(c2, rom, ts, <<"send.400">>)
     ELSE IF ~FromStringOk(req.dns) THEN Outcome(c3, rom, ts, <<"send.400">>)
     ELSE PostNetworkAccept(req, c4, ts)

\* POST /api/mqtt bodies.
MqttRequests ==
  [body : BOOLEAN, json : BOOLEAN, broker : {"absent", "broker.local"}]

\* Lines 362-394, POST /api/mqtt.
PostMqtt(req, cfg, rom, ts) ==
  IF ~req.body \/ ~req.json THEN Outcome(cfg, rom, ts, <<"send.400">>)
  ELSE LET c == [cfg EXCEPT
                   !.mqttBroker = IF req.broker = "absent" THEN ""
                                  ELSE req.broker]
       IN Outcome(c, SaveNetworkConfig(c), ts, <<"save", "send.200">>)

\* A POST /api/time body: whether the JSON parses, whether date and time are
\* present, the optional keys, and whether date and time pass their checks.
TimeRequest(json, fields, tz, ntp, dst, date, time) ==
  [json |-> json, fields |-> fields, tz |-> tz, ntp |-> ntp, dst |-> dst,
   date |-> date, time |-> time]

TimeRequests ==
  {TimeRequest(FALSE, FALSE, "absent", "absent", "absent", FALSE, FALSE),
   TimeRequest(TRUE, FALSE, "absent", "absent", "absent", FALSE, FALSE),
   TimeRequest(TRUE, TRUE, "bad", "absent", "absent", TRUE, TRUE)}
  \cup
  {TimeRequest(TRUE, TRUE, tz, ntp, dst, dt2[1], dt2[2]) :
     tz \in {"absent", "-05:30"}, ntp \in {"absent", "true", "false"},
     dst \in {"absent", "true", "false"},
     dt2 \in {<<TRUE, TRUE>>, <<FALSE, TRUE>>, <<TRUE, FALSE>>}}

\* The time requests followed in SpecNet: a manual time, NTP switched on,
\* NTP switched off.
TimeRequestsNet ==
  {TimeRequest(TRUE, TRUE, "absent", ntp, "absent", TRUE, TRUE) :
     ntp \in {"absent", "true", "false"}}

\* Lines 482-509: the manual date and time, after the calls `pre`.
PostTimeManual(req, cfg, rom, ts, pre) ==
  IF ~req.date \/ ~req.time
    THEN {Outcome(cfg, rom, ts, pre \o <<"send.400">>)}
    ELSE {Outcome(cfg, rom, ts, pre \o <<"commit.ok", "send.200">>),
          Outcome(cfg, rom, ts, pre \o <<"commit.fail", "send.500">>)}

\* Lines 426-510, POST /api/time.
PostTime(req, cfg, rom, ms, ts, l) ==
  IF ~req.json \/ ~req.fields \/ req.tz = "bad"
    THEN {Outcome(cfg, rom, ts, <<"send.400">>)}
  ELSE
  LET c1 == IF req.tz = "absent" THEN cfg ELSE [cfg EXCEPT !.timezone = req.tz]
      ntpWasEnabled == c1.ntpEnabled
      c2 == [c1 EXCEPT !.ntpEnabled = (req.ntp = "true")]
      c3 == IF req.dst = "absent" THEN c2
            ELSE [c2 EXCEPT !.dstEnabled = (req.dst = "true")]
  IN IF req.ntp = "absent" THEN PostTimeManual(req, c1, rom, ts, <<>>)
     ELSE IF c2.ntpEnabled
       THEN {Outcome(c3, SaveNetworkConfig(c3), o.ts,
                     o.ev \o <<"send.200", "save">>) :
               o \in HandleNTPUpdates(TRUE, c3, ms, ts, l)}
     ELSE IF ntpWasEnabled
       THEN PostTimeManual(req, c2, SaveNetworkConfig(c2), ts,
                           <<"send.200", "save">>)
     ELSE PostTimeManual(req, c2, rom, ts, <<>>)

----------------------------------------------------------------------------
(* The lock operations of every function that takes a mutex.                *)

\* Core 0 and the four tasks of core 1.
Contexts == {"core0", "rtc", "term", "led", "pwr"}

\* No context is inside a call.
LockQuiet == todo = [t \in Contexts |-> <<>>]

----------------------------------------------------------------------------
(* managePower and statusLEDs: the tasks behind the HealthStatus record.    *)

Rails == {"psu", "v20", "v5"}

\* The band of a rail, V_*_MIN and V_*_MAX of sys_init.h, on a scale on
\* which every rail has the same band.
V_MIN == 2
V_MAX == 4

\* Averages a cycle may compute: below, on the lower limit, inside, on the
\* upper limit, above.
Volts == (V_MIN - 1)..(V_MAX + 1)

\* How many cycles out of band in a row are counted.
MaxRun == 3

\* Lines 1035, 1040, 1045: the test that sends a rail out of range.
OutOfRange(v) == v > V_MAX \/ v < V_MIN

\* The HealthStatus record and the task's locals before the task has run:
\* the global is zero-initialised.
PowerQuiet ==
  /\ railOK = [r \in Rails |-> FALSE]
  /\ avg = [r \in Rails |-> 0]
  /\ status = [ok |-> [r \in Rails |-> FALSE], v |-> [r \in Rails |-> 0]]
  /\ logged = {}
  /\ wasOK = [r \in Rails |-> FALSE]
  /\ run = [r \in Rails |-> 0]
  /\ warnings = [r \in Rails |-> 0]

MonGoto(t, l) == monpc' = [monpc EXCEPT ![t] = l]

\* xSemaphoreTake(statusMutex, pdMS_TO_TICKS(100)) == pdTRUE
TakeStatusMutex(t) ==
  /\ statusMutex = "free"
  /\ statusMutex' = t

\* The same call returning pdFALSE after 100 ms.
TimeoutStatusMutex(t) ==
  /\ statusMutex \notin {"free", t}
  /\ UNCHANGED statusMutex

\* xSemaphoreGive(statusMutex)
GiveStatusMutex(t) ==
  /\ statusMutex = t
  /\ statusMutex' = "free"

\* Lines 1015-1021: wait for both flags; bool psuOK, V20OK, V5OK are
\* declared without a value.
PowerStart ==
  /\ monpc["pwr"] = "wait"
  /\ core1setupComplete /\ core0setupComplete
  /\ railOK' \in [Rails -> BOOLEAN]
  /\ MonGoto("pwr", "sample")
  /\ UNCHANGED <<serialReady, serialMutex, statusMutex, avg, status, logged,
                 wasOK, run, warnings, todo>>
  /\ UNCHANGED <<timeVars, netVars>>

\* Lines 1024-1049: ten samples per rail, their average, and per rail the
\* warning and the flag.  volts is the set of averages followed.
PowerSample(volts) ==
  /\ monpc["pwr"] = "sample"
  /\ \E a \in [Rails -> volts] :
       /\ avg' = a
       /\ logged' = {r \in Rails : OutOfRange(a[r]) /\ railOK[r]}
       /\ railOK' = [r \in Rails |-> ~OutOfRange(a[r])]
       /\ run' = [r \in Rails |->
                    IF ~OutOfRange(a[r]) THEN 0
                    ELSE IF run[r] < MaxRun THEN run[r] + 1 ELSE MaxRun]
       /\ warnings' = [r \in Rails |->
                         IF ~OutOfRange(a[r]) THEN 0
                         ELSE IF run[r] = MaxRun THEN warnings[r]
                         ELSE warnings[r] + (IF railOK[r] THEN 1 ELSE 0)]
  /\ wasOK' = railOK
  /\ MonGoto("pwr", "led")
  /\ UNCHANGED <<serialReady, serialMutex, statusMutex, status, todo>>
  /\ UNCHANGED <<timeVars, netVars>>

\* Lines 1050-1053 with setLEDcolour (741-752): the system LED, set under
\* statusMutex or given up after 100 ms.
PowerSetLED ==
  /\ monpc["pwr"] = "led"
  /\ statusMutex # "pwr"
  /\ MonGoto("pwr", "publish")
  /\ UNCHANGED <<serialReady, serialMutex, statusMutex, powerVars, todo>>
  /\ UNCHANGED <<timeVars, netVars>>

\* Line 1054, mutex taken.
PowerPublishTake ==
  /\ monpc["pwr"] = "publish"
  /\ TakeStatusMutex("pwr")
  /\ MonGoto("pwr", "write")
  /\ UNCHANGED <<serialReady, serialMutex, powerVars, todo>>
  /\ UNCHANGED <<timeVars, netVars>>

\* Line 1054 timing out: nothing is published this cycle; line 1063.
PowerPublishTimeout ==
  /\ monpc["pwr"] = "publish"
  /\ TimeoutStatusMutex("pwr")
  /\ MonGoto("pwr", "sample")
  /\ UNCHANGED <<serialReady, serialMutex, powerVars, todo>>
  /\ UNCHANGED <<timeVars, netVars>>

\* Lines 1055-1063: the averages and the flags copied, the mutex given.
PowerPublishGive ==
  /\ monpc["pwr"] = "write"
  /\ status' = [ok |-> railOK, v |-> avg]
  /\ GiveStatusMutex("pwr")
  /\ MonGoto("pwr", "sample")
  /\ UNCHANGED <<serialReady, serialMutex, railOK, avg, logged, wasOK, run,
                 warnings, todo>>
  /\ UNCHANGED <<timeVars, netVars>>

\* Lines 890-906: statusLEDs starts its loop as soon as it is scheduled.
LedBegin ==
  /\ monpc["led"] = "begin"
  /\ MonGoto("led", "loop")
  /\ UNCHANGED <<serialReady, serialMutex, statusMutex, powerVars, todo>>
  /\ UNCHANGED <<timeVars, netVars>>

\* Line 908, mutex taken.
LedRefreshTake ==
  /\ monpc["led"] = "loop"
  /\ TakeStatusMutex("led")
  /\ MonGoto("led", "read")
  /\ UNCHANGED <<serialReady, serialMutex, powerVars, todo>>
  /\ UNCHANGED <<timeVars, netVars>>

\* Line 908 timing out: the pixels keep their colours; line 914.
LedRefreshTimeout ==
  /\ monpc["led"] = "loop"
  /\ TimeoutStatusMutex("led")
  /\ MonGoto("led", "show")
  /\ UNCHANGED <<serialReady, serialMutex, powerVars, todo>>
  /\ UNCHANGED <<timeVars, netVars>>

\* Lines 909-913: the colours read, the mutex given.
LedRefreshGive ==
  /\ monpc["led"] = "read"
  /\ GiveStatusMutex("led")
  /\ MonGoto("led", "show")
  /\ UNCHANGED <<serialReady, serialMutex, powerVars, todo>>
  /\ UNCHANGED <<timeVars, netVars>>

\* Lines 915-930: leds.show(), the delay, the blink; then the next cycle.
LedShow ==
  /\ monpc["led"] = "show"
  /\ MonGoto("led", "loop")
  /\ UNCHANGED <<serialReady, serialMutex, statusMutex, powerVars, todo>>
  /\ UNCHANGED <<timeVars, netVars>>

----------------------------------------------------------------------------
(* Core 0: setup() and loop().                                              *)

\* What the EEPROM may hold at power-up: never written, or a record a
\* previous run saved.
InitialEeproms ==
  {[magic |-> "erased", cfg |-> [ZeroConfig EXCEPT !.hostname = "stale"]]}
  \cup
  {SaveNetworkConfig([WithDefaults(ZeroConfig) EXCEPT
                        !.useDHCP = d, !.ntpEnabled = n]) : d, n \in BOOLEAN}

\* The state of core 0 at reset: globals zero-initialised, EEPROM and link as
\* they are.
NetReset ==
  /\ netpc = "setupEthernet"
  /\ ethernetConnected = FALSE
  /\ networkConfig = ZeroConfig
  /\ millis = 0
  /\ ntpUpdateTimestamp = 0
  /\ lastCycle = "none"
  /\ ev = <<>>
  /\ lastApply = "none"
  /\ lastPoll = "none"

NetInit ==
  /\ NetReset
  /\ link \in {"LinkON", "LinkOFF"}
  /\ eeprom \in InitialEeproms

\* Lines 229-238: setupEthernet's reading of the link.
ConnectedAtSetup(l) == l # "LinkOFF"

\* Lines 182-239, setupEthernet.
SetupEthernet ==
  /\ netpc = "setupEthernet"
  /\ LET loaded == LoadNetworkConfig(networkConfig, eeprom)
         cfg == IF loaded.ok THEN loaded.cfg ELSE WithDefaults(networkConfig)
     IN /\ networkConfig' = cfg
        /\ eeprom' = IF loaded.ok THEN eeprom ELSE SaveNetworkConfig(cfg)
        /\ \E b1, b2 \in BOOLEAN :
             LET a == ApplyNetworkConfig(cfg, b1, b2)
             IN /\ ev' = (IF loaded.ok THEN <<>> ELSE <<"save">>)
                           \o a.ev \o <<ApplyEvent(a.ok)>>
                /\ lastApply' = IF ~ConnectedAtSetup(link) THEN "none"
                                ELSE IF a.ok THEN "ok" ELSE "fail"
  /\ ethernetConnected' = ConnectedAtSetup(link)
  /\ netpc' = "forcedSync"
  /\ UNCHANGED <<link, millis, ntpUpdateTimestamp, lastCycle, lastPoll>>
  /\ UNCHANGED <<timeVars, auxVars>>

\* Lines 810-814: past the barrier, the forced sync when NTP is enabled.
SetupForcedSync ==
  /\ netpc = "forcedSync"
  /\ IF networkConfig.ntpEnabled
       THEN \E o \in HandleNTPUpdates(TRUE, networkConfig, millis,
                                      ntpUpdateTimestamp, link) :
              /\ ev' = o.ev
              /\ ntpUpdateTimestamp' = o.ts
              /\ lastCycle' = CycleOutcome(o.ev, lastCycle)
       ELSE /\ ev' = <<>>
            /\ UNCHANGED <<ntpUpdateTimestamp, lastCycle>>
  /\ netpc' = "loop"
  /\ UNCHANGED <<link, ethernetConnected, networkConfig, eeprom, millis,
                 lastApply, lastPoll>>
  /\ UNCHANGED <<timeVars, auxVars>>

\* Line 822 left out: once connected, always connected.
AfterPoll_NeverLost(connected, polled) == connected \/ polled = "LinkON"

\* Lines 820-822 and 832-833: the link state after the poll of loop().
AfterPoll(connected, polled) ==
  IF connected THEN polled # "LinkOFF" ELSE polled = "LinkON"

\* Lines 820-826: connected, and the poll finds the link down.
LoopLinkLost ==
  /\ netpc = "loop"
  /\ ethernetConnected
  /\ link = "LinkOFF"
  /\ ethernetConnected' = AfterPoll(ethernetConnected, link)
  /\ lastPoll' = link
  /\ lastApply' = "none"
  /\ ev' = <<"poll", "led.off">>
  /\ UNCHANGED <<netpc, link, networkConfig, eeprom, millis, ntpUpdateTimestamp, lastCycle>>
  /\ UNCHANGED <<timeVars, auxVars>>

\* Lines 820-830: connected, and the poll finds the link up.
LoopLinkUp ==
  /\ netpc = "loop"
  /\ ethernetConnected
  /\ link # "LinkOFF"
  /\ ethernetConnected' = AfterPoll(ethernetConnected, link)
  /\ lastPoll' = link
  /\ ev' = <<"poll">>
  /\ netpc' = "handleWebServer"
  /\ UNCHANGED <<link, networkConfig, eeprom, millis, ntpUpdateTimestamp, lastCycle,
                 lastApply>>
  /\ UNCHANGED <<timeVars, auxVars>>

\* Lines 832-842: disconnected, and the poll finds the link up.
LoopReconnect ==
  /\ netpc = "loop"
  /\ ~ethernetConnected
  /\ link = "LinkON"
  /\ ethernetConnected' = AfterPoll(ethernetConnected, link)
  /\ lastPoll' = link
  /\ \E b1, b2 \in BOOLEAN :
       LET a == ApplyNetworkConfig(networkConfig, b1, b2)
       IN /\ ev' = <<"poll">> \o a.ev \o <<ApplyEvent(a.ok)>>
          /\ lastApply' = IF a.ok THEN "ok" ELSE "fail"
  /\ UNCHANGED <<netpc, link, networkConfig, eeprom, millis, ntpUpdateTimestamp, lastCycle>>
  /\ UNCHANGED <<timeVars, auxVars>>

\* Lines 820 and 832: disconnected, and the poll finds the link down.
LoopStillDown ==
  /\ netpc = "loop"
  /\ ~ethernetConnected
  /\ link # "LinkON"
  /\ ethernetConnected' = AfterPoll(ethernetConnected, link)
  /\ lastPoll' = link
  /\ ev' = <<"poll">>
  /\ UNCHANGED <<netpc, link, networkConfig, eeprom, millis, ntpUpdateTimestamp, lastCycle,
                 lastApply>>
  /\ UNCHANGED <<timeVars, auxVars>>

\* Lines 567-574, handleWebServer, with what server.handleClient() finds.
ServesClients(connected) == connected

\* No client is waiting.
WebIdle ==
  /\ netpc = "handleWebServer"
  /\ ev' = <<>>
  /\ netpc' = "handleNTP"
  /\ UNCHANGED <<link, ethernetConnected, networkConfig, eeprom, millis,
                 ntpUpdateTimestamp, lastCycle, lastApply, lastPoll>>
  /\ UNCHANGED <<timeVars, auxVars>>

\* A GET request (lines 244-278, 348-360, 399-424, 523-558): answered, no
\* state written.
WebGet ==
  /\ netpc = "handleWebServer"
  /\ ServesClients(ethernetConnected)
  /\ ev' = <<"http.get", "send.200">>
  /\ netpc' = "handleNTP"
  /\ UNCHANGED <<link, ethernetConnected, networkConfig, eeprom, millis,
                 ntpUpdateTimestamp, lastCycle, lastApply, lastPoll>>
  /\ UNCHANGED <<timeVars, auxVars>>

\* POST /api/network; an accepted request ends in rp2040.reboot().
WebPostNetwork(requests) ==
  /\ netpc = "handleWebServer"
  /\ ServesClients(ethernetConnected)
  /\ \E req \in requests :
       LET o == PostNetwork(req, networkConfig, eeprom, ntpUpdateTimestamp)
       IN /\ networkConfig' = o.cfg
          /\ eeprom' = o.rom
          /\ ev' = <<"http.post.network">> \o o.ev
          /\ netpc' = IF o.ev[Len(o.ev)] = "reboot" THEN "reboot"
                      ELSE "handleNTP"
  /\ UNCHANGED <<link, ethernetConnected, millis, ntpUpdateTimestamp, lastCycle,
                 lastApply, lastPoll>>
  /\ UNCHANGED <<timeVars, auxVars>>

\* POST /api/mqtt.
WebPostMqtt(requests) ==
  /\ netpc = "handleWebServer"
  /\ ServesClients(ethernetConnected)
  /\ \E req \in requests :
       LET o == PostMqtt(req, networkConfig, eeprom, ntpUpdateTimestamp)
       IN /\ networkConfig' = o.cfg
          /\ eeprom' = o.rom
          /\ ev' = <<"http.post.mqtt">> \o o.ev
  /\ netpc' = "handleNTP"
  /\ UNCHANGED <<link, ethernetConnected, millis, ntpUpdateTimestamp, lastCycle,
                 lastApply, lastPoll>>
  /\ UNCHANGED <<timeVars, auxVars>>

\* POST /api/time.
WebPostTime(requests) ==
  /\ netpc = "handleWebServer"
  /\ ServesClients(ethernetConnected)
  /\ \E req \in requests :
       \E o \in PostTime(req, networkConfig, eeprom, millis,
                         ntpUpdateTimestamp, link) :
         /\ networkConfig' = o.cfg
         /\ eeprom' = o.rom
         /\ ntpUpdateTimestamp' = o.ts
         /\ lastCycle' = CycleOutcome(o.ev, lastCycle)
         /\ ev' = <<"http.post.time">> \o o.ev
  /\ netpc' = "handleNTP"
  /\ UNCHANGED <<link, ethernetConnected, millis, lastApply, lastPoll>>
  /\ UNCHANGED <<timeVars, auxVars>>

\* Line 829: handleNTPUpdates(false), then ipc.update() and the next loop().
LoopHandleNTP ==
  /\ netpc = "handleNTP"
  /\ \E o \in HandleNTPUpdates(FALSE, networkConfig, millis,
                               ntpUpdateTimestamp, link) :
       /\ ev' = o.ev
       /\ ntpUpdateTimestamp' = o.ts
       /\ lastCycle' = CycleOutcome(o.ev, lastCycle)
  /\ netpc' = "loop"
  /\ UNCHANGED <<link, ethernetConnected, networkConfig, eeprom, millis,
                 lastApply, lastPoll>>
  /\ UNCHANGED <<timeVars, auxVars>>

\* rp2040.reboot() (line 342): core 0 starts again from reset.
Reboot ==
  /\ netpc = "reboot"
  /\ netpc' = "setupEthernet"
  /\ ethernetConnected' = FALSE
  /\ networkConfig' = ZeroConfig
  /\ millis' = 0
  /\ ntpUpdateTimestamp' = 0
  /\ lastCycle' = "none"
  /\ ev' = <<>>
  /\ lastApply' = "none"
  /\ lastPoll' = "none"
  /\ UNCHANGED <<link, eeprom>>
  /\ UNCHANGED <<timeVars, auxVars>>

\* The cable or the peer changes the state of the link.
LinkChange ==
  /\ link' = IF link = "LinkON" THEN "LinkOFF" ELSE "LinkON"
  /\ ev' = <<>>
  /\ UNCHANGED <<netpc, ethernetConnected, networkConfig, eeprom, millis,
                 ntpUpdateTimestamp, lastCycle, lastApply, lastPoll>>
  /\ UNCHANGED <<timeVars, auxVars>>

\* Time passes.
MillisTick ==
  /\ millis < MaxMillis
  /\ millis' = millis + 1
  /\ ev' = <<>>
  /\ UNCHANGED <<netpc, link, ethernetConnected, networkConfig, eeprom,
                 ntpUpdateTimestamp, lastCycle, lastApply, lastPoll>>
  /\ UNCHANGED <<timeVars, auxVars>>

NetNext ==
  \/ SetupEthernet \/ SetupForcedSync
  \/ LoopLinkLost \/ LoopLinkUp \/ LoopReconnect \/ LoopStillDown
  \/ WebIdle \/ WebGet \/ WebPostNetwork(NetworkRequestsNet)
  \/ WebPostTime(TimeRequestsNet)
  \/ LoopHandleNTP \/ Reboot \/ LinkChange \/ MillisTick

\* The configuration API with every request, the link staying up and the
\* clock standing still.
CfgNext ==
  \/ SetupEthernet \/ SetupForcedSync \/ LoopLinkUp
  \/ WebIdle \/ WebGet \/ WebPostNetwork(NetworkRequests)
  \/ WebPostMqtt(MqttRequests) \/ WebPostTime(TimeRequests)
  \/ LoopHandleNTP \/ Reboot

\* The WallClock's tasks before any of them has run.
TimeQuiet == TimeInit /\ rtcHW = DT(2024, 1)

\* Core 0 at reset with an EEPROM never written and the link down.
NetQuiet ==
  /\ NetReset
  /\ link = "LinkOFF"
  /\ eeprom = [magic |-> "erased", cfg |-> [ZeroConfig EXCEPT !.hostname = "stale"]]

\* Both cores past their setup: the three mutexes exist, statusLEDs runs and
\* managePower has found both flags set.
AuxQuiet ==
  /\ serialReady = TRUE
  /\ serialMutex = "free"
  /\ statusMutex = "free"
  /\ monpc = [t \in {"led", "pwr"} |-> "loop"]
  /\ PowerQuiet
  /\ LockQuiet

InitNet == TimeQuiet /\ NetInit /\ AuxQuiet

SpecNet == InitNet /\ [][NetNext]_vars

InitCfg == TimeQuiet /\ NetInit /\ link = "LinkON" /\ AuxQuiet

SpecCfg == InitCfg /\ [][CfgNext]_vars

InitTime == TimeInit /\ NetQuiet /\ AuxQuiet

SpecTime == InitTime /\ [][TimeNext]_vars

----------------------------------------------------------------------------
(* Claims about the link state, checked under SpecNet.                      *)

Made(e, call) == \E i \in 1..Len(e) : e[i] = call

\* The latest step was the poll of a loop() iteration.
Polled == Len(ev) > 0 /\ ev[1] = "poll"

\* The latest step serviced an HTTP client.
ServicedClient ==
  \E c \in {"http.get", "http.post.network", "http.post.mqtt", "http.post.time"} :
    Made(ev, c)

\* The latest step asked the remote time source.
QueriedTimeSource == Made(ev, "ntp.query.ok") \/ Made(ev, "ntp.query.fail")

\* C5: the link state is Connected only if applyNetworkConfig has returned
\* success since the link state last left Disconnected (or since boot).
C5_ConnectedOnlyAfterApply == ethernetConnected => lastApply = "ok"

\* C6: a loop() iteration in which applyNetworkConfig fails leaves the link
\* state Disconnected, and while the latest applyNetworkConfig has failed,
\* every iteration whose poll finds the link up calls it again.
C6_FailedApplyIsRetried ==
  /\ [](Polled /\ Made(ev, "apply.fail") => ~ethernetConnected)
  /\ [][(netpc = "loop" /\ lastApply = "fail" /\ link = "LinkON" /\ Polled')
          => (Made(ev', "apply.ok") \/ Made(ev', "apply.fail"))]_vars

\* C7: after the poll of a loop() iteration the link state is what the poll
\* observed: Connected for a link found up, Disconnected for one found down.
C7_StateFollowsPoll ==
  lastPoll # "none" => (ethernetConnected <=> lastPoll = "LinkON")

\* Connected, and the poll has just found the link down.
C7_Witness ==
  /\ Made(ev, "led.off")
  /\ lastPoll = "LinkOFF"
  /\ ~ethernetConnected

\* C8: while the link state is Disconnected no HTTP client is serviced and
\* the remote time source is not asked; and it is never asked with the
\* physical link down.
C8_NoServiceWhileDisconnected ==
  /\ ~ethernetConnected => (~ServicedClient /\ ~QueriedTimeSource)
  /\ QueriedTimeSource => LinkIsUp(link)

----------------------------------------------------------------------------
(* Claims about the configuration, checked under SpecCfg.                   *)

\* The step is the POST /api/network handler answering 400.
NetworkPostRejected ==
  /\ netpc = "handleWebServer"
  /\ Len(ev') > 0 /\ ev'[1] = "http.post.network"
  /\ Made(ev', "send.400")

\* C9: a POST /api/network that is rejected changes neither the stored nor
\* the live NetworkConfig.
C9_RejectedUpdateHasNoEffect ==
  [][NetworkPostRejected
       => (networkConfig' = networkConfig /\ eeprom' = eeprom)]_vars

\* C10: once setupEthernet has completed, outside the API handlers the stored
\* record is valid and equals the live one.
C10_StoredEqualsLive ==
  netpc \notin {"setupEthernet", "reboot"}
    => (GuardMatches(eeprom) /\ eeprom.cfg = networkConfig)


----------------------------------------------------------------------------
(* Claims about the order of the calls inside the API handlers.             *)

\* The latest step was a POST handler that answered 200.
AcceptedPost ==
  /\ Len(ev) > 0
  /\ ev[1] \in {"http.post.network", "http.post.mqtt", "http.post.time"}
  /\ Made(ev, "send.200")

\* In the latest step every call `a` came before every call `b`.
Precedes(a, b) ==
  \A i, j \in 1..Len(ev) : (ev[i] = a /\ ev[j] = b) => i < j

\* C11: an accepted configuration request saves before it acknowledges and
\* acknowledges before it applies (reboot or forced sync cycle), and leaves
\* nothing of the live record unsaved.
C11_PersistAckApply ==
  AcceptedPost =>
    /\ Precedes("save", "send.200")
    /\ \A b \in {"reboot", "ntp.cycle"} :
         Precedes("save", b) /\ Precedes("send.200", b)
    /\ GuardMatches(eeprom) /\ eeprom.cfg = networkConfig


----------------------------------------------------------------------------
(* Claims about the remote time sync.                                       *)

\* C12: a sync cycle starts only when at least NTP_MIN_SYNC_INTERVAL has
\* passed since the recorded timestamp, forced or not, and records the time
\* it ran at; so two calls less than the minimum apart run at most one cycle.
C12_MinimumBetweenCycles ==
  [][Made(ev', "ntp.cycle")
       => /\ millis - ntpUpdateTimestamp >= NTP_MIN_SYNC_INTERVAL
          /\ ntpUpdateTimestamp' = millis']_vars

\* A forced call made within the minimum of a recorded cycle was skipped.
C12_Witness ==
  /\ Made(ev, "http.post.time") /\ Made(ev, "ntp.skip")
  /\ ntpUpdateTimestamp > 0
  /\ millis - ntpUpdateTimestamp < NTP_MIN_SYNC_INTERVAL


\* C13: a due cycle that ntpUpdate leaves at once because the link is down
\* does not move the recorded timestamp.
C13_SkippedCycleKeepsTimestamp ==
  [][(Made(ev', "ntp.cycle") /\ ~LinkIsUp(link))
       => ntpUpdateTimestamp' = ntpUpdateTimestamp]_vars


----------------------------------------------------------------------------
(* Boot: setup() on core 0 and setup1() on core 1 from reset to the startup *)
(* barrier, and the four tasks setup1 creates.                              *)

BootInit ==
  /\ pc = [t \in Tasks |->
             CASE t = "core0" -> "setup"
               [] t = "core1" -> "setup1"
               [] OTHER       -> "uncreated"]
  /\ monpc = [t \in {"led", "pwr"} |-> "uncreated"]
  /\ dateTimeMutex = "null"
  /\ statusMutex = "null"
  /\ serialMutex = "null"
  /\ serialReady = FALSE
  /\ core0setupComplete = FALSE
  /\ core1setupComplete = FALSE
  /\ globalDateTime = ZeroDateTime
  /\ rtcHW = DT(2024, 1)
  /\ dt = NoDateTime
  /\ retry = 0
  /\ success = FALSE
  /\ currentTime = NoDateTime
  /\ commitResult = "none"
  /\ callWroteGlobal = FALSE
  /\ callRtcWrites = 0
  /\ snap = [t \in Readers |-> NoDateTime]
  /\ readResult = [t \in Readers |-> "none"]
  /\ sample = NoDateTime
  /\ stale = "no"
  /\ PowerQuiet
  /\ LockQuiet
  /\ NetQuiet

\* The allocation failed: while (1) does not return.
AfterAllocation_GoesOn(ok, next) == next

\* Lines 853-856 and 858-861: a mutex that is NULL stops setup1 for good.
AfterAllocation(ok, next) == IF ok THEN next ELSE "halt"

\* Lines 789-800: the serial port, serialMutex, serialReady.
Setup0CreateSerialMutex ==
  /\ pc["core0"] = "setup"
  /\ \E ok \in BOOLEAN :
       /\ serialMutex' = IF ok THEN "free" ELSE "null"
       /\ serialReady' = ok
  /\ Goto("core0", "hardware")
  /\ UNCHANGED <<dateTimeMutex, globalDateTime, rtcHW, flags, commitLocals,
                 readLocals, sample, stale>>
  /\ UNCHANGED <<statusMutex, monpc, powerVars, todo>>
  /\ UNCHANGED netVars

\* Lines 803-804 and 513-561: setupEthernet, then setupWebServer up to its
\* call of setLEDcolour, which it does not reach when LittleFS.begin() fails
\* (lines 516-520).
Setup0WebServer ==
  /\ pc["core0"] = "hardware"
  /\ \E mounted \in BOOLEAN :
       Goto("core0", IF mounted THEN "webserver_led" ELSE "apis")
  /\ UNCHANGED <<dateTimeMutex, globalDateTime, rtcHW, flags, commitLocals,
                 readLocals, sample, stale>>
  /\ UNCHANGED <<netVars, auxVars>>

\* Lines 564 and 741-752: setLEDcolour takes statusMutex for at most 100 ms,
\* writes the colour and gives the mutex back, or returns false.  On a handle
\* that is still NULL xSemaphoreTake is undefined: it returns, or it does not.
Setup0WebServerLED ==
  /\ pc["core0"] = "webserver_led"
  /\ \/ Goto("core0", "apis")
     \/ /\ statusMutex = "null"
        /\ Goto("core0", "fault")
  /\ UNCHANGED <<dateTimeMutex, globalDateTime, rtcHW, flags, commitLocals,
                 readLocals, sample, stale>>
  /\ UNCHANGED <<netVars, auxVars>>

\* Lines 805-811: setupNetworkAPI ... setupIPC, then core0setupComplete = true.
Setup0Complete ==
  /\ pc["core0"] = "apis"
  /\ core0setupComplete' = TRUE
  /\ Goto("core0", "barrier")
  /\ UNCHANGED <<dateTimeMutex, globalDateTime, rtcHW, core1setupComplete,
                 commitLocals, readLocals, sample, stale>>
  /\ UNCHANGED <<netVars, auxVars>>

\* Line 848: while (!serialReady) delay(100);
Setup1WaitSerial ==
  /\ pc["core1"] = "setup1"
  /\ serialReady
  /\ Goto("core1", "create_dateTimeMutex")
  /\ UNCHANGED <<dateTimeMutex, globalDateTime, rtcHW, flags, commitLocals,
                 readLocals, sample, stale>>
  /\ UNCHANGED <<netVars, auxVars>>

\* Lines 852-856: dateTimeMutex = xSemaphoreCreateMutex().
Setup1CreateDateTimeMutex ==
  /\ pc["core1"] = "create_dateTimeMutex"
  /\ \E ok \in BOOLEAN :
       /\ dateTimeMutex' = IF ok THEN "free" ELSE "null"
       /\ Goto("core1", AfterAllocation(ok, "create_statusMutex"))
  /\ UNCHANGED <<globalDateTime, rtcHW, flags, commitLocals, readLocals,
                 sample, stale>>
  /\ UNCHANGED <<netVars, auxVars>>

\* Lines 857-861: statusMutex = xSemaphoreCreateMutex().
Setup1CreateStatusMutex ==
  /\ pc["core1"] = "create_statusMutex"
  /\ \E ok \in BOOLEAN :
       /\ statusMutex' = IF ok THEN "free" ELSE "null"
       /\ Goto("core1", AfterAllocation(ok, "create_tasks"))
  /\ UNCHANGED <<dateTimeMutex, globalDateTime, rtcHW, flags, commitLocals,
                 readLocals, sample, stale>>
  /\ UNCHANGED <<serialReady, serialMutex, monpc, powerVars, todo>>
  /\ UNCHANGED netVars

\* Lines 864-874: the four tasks are created and may run from here on.
Setup1CreateTasks ==
  /\ pc["core1"] = "create_tasks"
  /\ pc' = [pc EXCEPT !["core1"] = "tasks_created", !["rtc"] = "begin",
                      !["term"] = "wait"]
  /\ monpc' = [led |-> "begin", pwr |-> "wait"]
  /\ UNCHANGED <<dateTimeMutex, globalDateTime, rtcHW, flags, commitLocals,
                 readLocals, sample, stale>>
  /\ UNCHANGED <<serialReady, serialMutex, statusMutex, powerVars, todo>>
  /\ UNCHANGED netVars

\* The averages followed while the system boots.
BootVolts == {V_MIN + 1}

\* setup() on core 0.
Core0Setup ==
  \/ Setup0CreateSerialMutex \/ Setup0WebServer \/ Setup0WebServerLED
  \/ Setup0Complete \/ Setup0PassBarrier

\* setup1() on core 1.
Core1Setup ==
  \/ Setup1WaitSerial \/ Setup1CreateDateTimeMutex \/ Setup1CreateStatusMutex
  \/ Setup1CreateTasks \/ Setup1Complete \/ Setup1PassBarrier

BootNext ==
  \/ Core0Setup
  \/ Core1Setup
  \/ TerminalStart
  \/ RtcBegin \/ RtcInitRead \/ RtcInitCopyYear \/ RtcInitCopyMonth
  \/ RtcSampleRead \/ RtcSampleTake \/ RtcSampleCopyYear
  \/ RtcSampleCopyMonth \/ RtcSampleGive
  \/ LedBegin \/ LedRefreshTake \/ LedRefreshTimeout \/ LedRefreshGive
  \/ LedShow
  \/ PowerStart \/ PowerSample(BootVolts) \/ PowerSetLED \/ PowerPublishTake
  \/ PowerPublishTimeout \/ PowerPublishGive

SpecBoot == BootInit /\ [][BootNext]_vars

\* Each core runs its own setup and does not stop while it has a step to
\* take; nothing is assumed of the four tasks.
SpecBootFair == SpecBoot /\ WF_vars(Core0Setup) /\ WF_vars(Core1Setup)

----------------------------------------------------------------------------
(* Claims about the startup barrier, checked under SpecBoot.                *)

\* Core 0 is past line 812: the forced sync and loop().
Core0Steady == pc["core0"] = "idle"

\* Core 1 is past line 878: loop1().
Core1Steady == pc["core1"] = "loop1"

\* manageRTC is inside an iteration of its task loop.
RtcSteady ==
  pc["rtc"] \in {"loop_take", "loop_wr_year", "loop_wr_month", "loop_give"}

\* statusLEDs is inside an iteration of its task loop.
LedSteady == monpc["led"] \in {"read", "show"}

\* manageTerminal is past its wait.
TermSteady == pc["term"] \notin {"uncreated", "wait"}

\* managePower is past its wait.
PowerSteady == monpc["pwr"] \notin {"uncreated", "wait"}

\* C14: neither core 0 nor any of the four tasks does steady-state work
\* before both core0setupComplete and core1setupComplete are true.
C14_NoSteadyWorkBeforeBarrier ==
  (Core0Steady \/ RtcSteady \/ LedSteady \/ TermSteady \/ PowerSteady)
    => (core0setupComplete /\ core1setupComplete)


\* manageRTC has stored its first reading of the RTC (line 949).
FirstReadStored ==
  pc["rtc"] \in {"loop_read", "loop_take", "loop_wr_year", "loop_wr_month",
                 "loop_give"}

\* Core 0 or the terminal task is inside getGlobalDateTime or
\* updateGlobalDateTime.
ConsumerRunning ==
  \/ pc["core0"] \notin {"setup", "hardware", "webserver_led", "apis", "fault",
                         "barrier", "idle"}
  \/ pc["term"] \notin {"uncreated", "wait", "idle"}

\* C15: no read or commit of the WallClock runs before manageRTC has stored
\* its first reading of the RTC.
C15_FirstReadBeforeConsumers == ConsumerRunning => FirstReadStored


----------------------------------------------------------------------------
(* The HealthStatus tasks after boot, with every average.                   *)

\* Both cores past the barrier, the clock task in its loop, statusLEDs in
\* its loop, managePower created and not yet past its wait.
PowerInit ==
  /\ pc = [t \in Tasks |->
             CASE t = "core0" -> "idle"
               [] t = "core1" -> "loop1"
               [] t = "rtc"   -> "loop_read"
               [] t = "term"  -> "idle"]
  /\ monpc = [led |-> "loop", pwr |-> "wait"]
  /\ dateTimeMutex = "free"
  /\ statusMutex = "free"
  /\ serialMutex = "free"
  /\ serialReady = TRUE
  /\ core0setupComplete = TRUE
  /\ core1setupComplete = TRUE
  /\ globalDateTime = DT(2024, 1)
  /\ rtcHW = DT(2024, 1)
  /\ dt = NoDateTime
  /\ retry = 0
  /\ success = FALSE
  /\ currentTime = NoDateTime
  /\ commitResult = "none"
  /\ callWroteGlobal = FALSE
  /\ callRtcWrites = 0
  /\ snap = [t \in Readers |-> NoDateTime]
  /\ readResult = [t \in Readers |-> "none"]
  /\ sample = NoDateTime
  /\ stale = "no"
  /\ PowerQuiet
  /\ LockQuiet
  /\ NetQuiet

\* The averages followed: below the band, on its lower limit, above it.
PowerVolts == {V_MIN - 1, V_MIN, V_MAX + 1}

PowerNext ==
  \/ PowerStart \/ PowerSample(PowerVolts) \/ PowerSetLED
  \/ PowerPublishTake \/ PowerPublishTimeout \/ PowerPublishGive
  \/ LedRefreshTake \/ LedRefreshTimeout \/ LedRefreshGive \/ LedShow

SpecPower == PowerInit /\ [][PowerNext]_vars

\* managePower has run the tests of a cycle and not yet started the next.
CycleDone == monpc["pwr"] \in {"led", "publish", "write"}

\* C16: a cycle logs a warning for a rail exactly when the rail's average is
\* out of range and its flag was true before the cycle; so whenever a rail
\* is out of range, the first cycles after the task's start included,
\* exactly one warning has been logged since it went out of range.
C16_OneWarningPerExcursion ==
  /\ CycleDone => logged = {r \in Rails : OutOfRange(avg[r]) /\ wasOK[r]}
  /\ \A r \in Rails : run[r] >= 1 => warnings[r] = 1


\* setup1 has asked for dateTimeMutex or statusMutex and got NULL.
AllocationFailed ==
  \/ /\ pc["core1"] \notin {"setup1", "create_dateTimeMutex"}
     /\ dateTimeMutex = "null"
  \/ /\ pc["core1"] \notin {"setup1", "create_dateTimeMutex", "create_statusMutex"}
     /\ statusMutex = "null"

\* C17: once the allocation of dateTimeMutex or of statusMutex has failed,
\* no task exists, core1setupComplete is false and core 0 is not past its
\* wait of line 812.
C17_AllocationFailureHaltsBoot ==
  AllocationFailed =>
    /\ pc["rtc"] = "uncreated" /\ pc["term"] = "uncreated"
    /\ monpc["led"] = "uncreated" /\ monpc["pwr"] = "uncreated"
    /\ ~core1setupComplete
    /\ ~Core0Steady

\* statusMutex could not be allocated and core 0 has reached its wait.
C17_Witness ==
  /\ AllocationFailed
  /\ dateTimeMutex = "free" /\ statusMutex = "null"
  /\ core0setupComplete /\ pc["core0"] = "barrier"


----------------------------------------------------------------------------
(* Claims about the answers of POST /api/time, checked under SpecNet.       *)

\* The latest step was the POST /api/time handler, and the commit or the
\* sync cycle it started did not set the clock.
TimeRequestFailed ==
  /\ Len(ev) > 0 /\ ev[1] = "http.post.time"
  /\ \/ Made(ev, "commit.fail")
     \/ Made(ev, "ntp.skip")
     \/ Made(ev, "ntp.cycle") /\ ~Made(ev, "commit.ok")

\* C18: a POST /api/time whose commit or sync did not succeed is answered
\* with a failure and never with a success.
C18_FailureIsReported ==
  TimeRequestFailed => (Made(ev, "send.500") /\ ~Made(ev, "send.200"))


----------------------------------------------------------------------------
(* Lock operations.  A call is the sequence of xSemaphoreTake and           *)
(* xSemaphoreGive it performs; a take carries its wait and the operations   *)
(* that follow when it returns pdFALSE.                                      *)

Take(m, wait, orElse) == [op |-> "take", m |-> m, wait |-> wait, orElse |-> orElse]
Give(m) == [op |-> "give", m |-> m, wait |-> "none", orElse |-> <<>>]

\* The operations p followed by the operations q, on every path through p.
RECURSIVE Then(_, _)
Then(p, q) ==
  IF p = <<>> THEN q
  ELSE <<IF Head(p).op = "take"
           THEN [Head(p) EXCEPT !.orElse = Then(@, q)]
           ELSE Head(p)>> \o Then(Tail(p), q)

RECURSIVE Times(_, _)
Times(p, n) == IF n = 0 THEN <<>> ELSE Then(p, Times(p, n - 1))

\* debug_printf reading the clock for a time stamp while it holds
\* serialMutex.
DebugPrintf_TakesDateTimeMutex ==
  <<Take("serialMutex", "portMAX_DELAY", <<>>),
    Take("dateTimeMutex", "portMAX_DELAY", <<>>), Give("dateTimeMutex"),
    Give("serialMutex")>>

\* Lines 702-738, debug_printf.
DebugPrintf == <<Take("serialMutex", "portMAX_DELAY", <<>>), Give("serialMutex")>>

\* Lines 633-642, getGlobalDateTime.
GetGlobalDateTime == <<Take("dateTimeMutex", "100ms", <<>>), Give("dateTimeMutex")>>

\* Lines 645-700, updateGlobalDateTime making n attempts: each attempt logs
\* at line 652 and again at line 667, 672 or 678, all before line 686.
UpdateGlobalDateTime(n) ==
  <<Take("dateTimeMutex", "100ms", DebugPrintf)>>
    \o Times(Then(DebugPrintf, DebugPrintf), n)
    \o <<Give("dateTimeMutex")>> \o DebugPrintf

\* Lines 741-752, setLEDcolour.
SetLEDcolour == <<Take("statusMutex", "100ms", <<>>), Give("statusMutex")>>

\* Lines 539-554, GET /api/power.
GetPower == <<Take("statusMutex", "portMAX_DELAY", <<>>), Give("statusMutex")>>

\* Lines 753-786, osDebugPrint.
OsDebugPrint == Then(Then(GetGlobalDateTime, DebugPrintf), DebugPrintf)

\* What each context calls.  Core 0: handleWebServer (567-574) with the
\* handlers of GET /api/power, GET /api/sensors and POST /api/time, ntpUpdate
\* (88-97) and the link-lost branch of loop() (822-825).  The tasks: one
\* iteration of their loops.
LockPrograms(t) ==
  CASE t = "core0" ->
         {Then(GetPower, SetLEDcolour),
          Then(GetGlobalDateTime, SetLEDcolour),
          Then(SetLEDcolour, Then(SetLEDcolour, DebugPrintf))}
         \cup {Then(DebugPrintf, Then(UpdateGlobalDateTime(n), SetLEDcolour)) :
                 n \in 1..maxRetries}
         \cup {Then(UpdateGlobalDateTime(n), DebugPrintf) : n \in 1..maxRetries}
    [] t = "rtc"  -> {GetGlobalDateTime}
    [] t = "term" -> {DebugPrintf, Then(DebugPrintf, OsDebugPrint)}
    [] t = "led"  -> {SetLEDcolour}
    [] t = "pwr"  -> {Then(SetLEDcolour, SetLEDcolour),
                      Then(DebugPrintf, Then(SetLEDcolour, SetLEDcolour))}

Holder(m) ==
  CASE m = "dateTimeMutex" -> dateTimeMutex
    [] m = "statusMutex"   -> statusMutex
    [] m = "serialMutex"   -> serialMutex

SetHolder(m, h) ==
  /\ dateTimeMutex' = IF m = "dateTimeMutex" THEN h ELSE dateTimeMutex
  /\ statusMutex' = IF m = "statusMutex" THEN h ELSE statusMutex
  /\ serialMutex' = IF m = "serialMutex" THEN h ELSE serialMutex

lockFrame == <<pc, globalDateTime, rtcHW, flags, commitLocals, readLocals,
               sample, stale, netVars, serialReady, monpc, powerVars>>

\* The context is at an xSemaphoreTake.
AtTake(t) == todo[t] # <<>> /\ Head(todo[t]).op = "take"

\* The context enters one of its calls.
LockCall(t) ==
  /\ todo[t] = <<>>
  /\ \E p \in LockPrograms(t) : todo' = [todo EXCEPT ![t] = p]
  /\ UNCHANGED <<dateTimeMutex, statusMutex, serialMutex>>
  /\ UNCHANGED lockFrame

\* xSemaphoreTake returns pdTRUE.
LockTake(t) ==
  /\ AtTake(t)
  /\ Holder(Head(todo[t]).m) = "free"
  /\ SetHolder(Head(todo[t]).m, t)
  /\ todo' = [todo EXCEPT ![t] = Tail(@)]
  /\ UNCHANGED lockFrame

\* xSemaphoreTake with a 100 ms wait returns pdFALSE; with portMAX_DELAY it
\* does not return while the mutex is held.
LockTimeout(t) ==
  /\ AtTake(t)
  /\ Head(todo[t]).wait = "100ms"
  /\ Holder(Head(todo[t]).m) # "free"
  /\ todo' = [todo EXCEPT ![t] = Head(@).orElse]
  /\ UNCHANGED <<dateTimeMutex, statusMutex, serialMutex>>
  /\ UNCHANGED lockFrame

\* xSemaphoreGive.
LockGive(t) ==
  /\ todo[t] # <<>> /\ Head(todo[t]).op = "give"
  /\ SetHolder(Head(todo[t]).m, "free")
  /\ todo' = [todo EXCEPT ![t] = Tail(@)]
  /\ UNCHANGED lockFrame

\* Both cores past the barrier, every task in its loop.
LockInit == PowerInit

LockNext ==
  \E t \in Contexts : LockCall(t) \/ LockTake(t) \/ LockTimeout(t) \/ LockGive(t)

SpecLock == LockInit /\ [][LockNext]_vars

\* A step of the call the context is in.
LockStep(t) == LockTake(t) \/ LockTimeout(t) \/ LockGive(t)

\* A context inside a call goes on: it gives a mutex it is about to give, a
\* bounded take returns, and an unbounded take returns when the mutex is free
\* again and again (the holders sleep between their cycles, lines 915, 968,
\* 1062).  Nothing is assumed about new calls.
SpecLockFair == SpecLock /\ \A t \in Contexts : SF_vars(LockStep(t))

\* The mutexes the context holds.
Held(t) == {m \in {"dateTimeMutex", "statusMutex", "serialMutex"} : Holder(m) = t}

\* C19: no context that holds a mutex is at an xSemaphoreTake: in
\* particular updateGlobalDateTime takes no other mutex, serialMutex
\* included, between taking and giving dateTimeMutex.
C19_NoNestedLocks == \A t \in Contexts : Held(t) # {} => ~AtTake(t)

\* C20: every xSemaphoreTake of dateTimeMutex or statusMutex has a bounded
\* wait, so that it returns when the mutex stays held by another context.
C20_BoundedWaits ==
  \A t \in Contexts :
    (AtTake(t) /\ Head(todo[t]).m \in {"dateTimeMutex", "statusMutex"})
      => Head(todo[t]).wait = "100ms"


----------------------------------------------------------------------------
(* Claims about applyNetworkConfig and the stored record.                   *)

\* How often the latest step made the call.
Count(call) == Cardinality({i \in 1..Len(ev) : ev[i] = call})

\* The latest step ran applyNetworkConfig.
Applied == Made(ev, "apply.ok") \/ Made(ev, "apply.fail")

\* C21: applyNetworkConfig with DHCP releases the lease, tries DHCP once
\* and, only when that fails, once more with 192.168.1.10, and fails exactly
\* when both attempts fail; with static addressing it makes one attempt with
\* the stored addresses and fails exactly when that attempt fails.
C21_BoundedAttempts ==
  Applied =>
    LET ok == Count("eth.begin:ok")
        failed == Count("eth.begin:fail")
    IN IF networkConfig.useDHCP
         THEN /\ Count("eth.end") = 1
              /\ Precedes("eth.end", "eth.begin:ok")
              /\ Precedes("eth.end", "eth.begin:fail")
              /\ ok + failed \in 1..2
              /\ ok <= 1 /\ Precedes("eth.begin:fail", "eth.begin:ok")
              /\ Count("eth.config:192.168.1.10") = (IF ok + failed = 2 THEN 1 ELSE 0)
              /\ Precedes("eth.begin:fail", "eth.config:192.168.1.10")
                   \/ failed = 2
              /\ Made(ev, "apply.fail") <=> failed = 2
              /\ ~Made(ev, "eth.config:static")
         ELSE /\ ok + failed = 1
              /\ Count("eth.config:static") = 1
              /\ Count("eth.end") = 0 /\ Count("eth.config:192.168.1.10") = 0
              /\ Made(ev, "apply.fail") <=> failed = 1

\* DHCP failed, the fixed address was tried and failed too.
C21_Witness ==
  /\ Applied /\ networkConfig.useDHCP
  /\ Count("eth.begin:fail") = 2
  /\ Made(ev, "eth.config:192.168.1.10")
  /\ Made(ev, "apply.fail")


----------------------------------------------------------------------------
(* saveNetworkConfig and loadNetworkConfig on their own: any live record,   *)
(* any stored record, saves and loads in any order.                         *)

\* The live records followed.
RomConfigs ==
  {[WithDefaults(ZeroConfig) EXCEPT !.useDHCP = d, !.ip = i, !.hostname = h,
                                    !.ntpEnabled = n, !.mqttBroker = b] :
     d \in BOOLEAN, i \in {"192.168.1.100", "10.0.0.2"},
     h \in {"open-reactor", "reactor-2"}, n \in BOOLEAN,
     b \in {"", "broker.local"}}

\* Guard bytes other than EE_MAGIC_NUMBER: erased flash, or another value.
OtherGuards == {"erased", "other"}

RomInit ==
  /\ TimeQuiet /\ AuxQuiet
  /\ netpc = "setupEthernet"
  /\ link = "LinkOFF"
  /\ ethernetConnected = FALSE
  /\ networkConfig \in RomConfigs
  /\ eeprom \in {[magic |-> g, cfg |-> [ZeroConfig EXCEPT !.hostname = "stale"]] :
                   g \in OtherGuards}
  /\ millis = 0
  /\ ntpUpdateTimestamp = 0
  /\ lastCycle = "none"
  /\ ev = <<>>
  /\ lastApply = "none"
  /\ lastPoll = "none"

romFrame == <<netpc, link, ethernetConnected, millis, ntpUpdateTimestamp,
              lastCycle, lastApply, lastPoll, timeVars, auxVars>>

\* The program changes the live record.
RomEdit ==
  /\ networkConfig' \in RomConfigs \ {networkConfig}
  /\ ev' = <<"edit">>
  /\ UNCHANGED eeprom
  /\ UNCHANGED romFrame

\* saveNetworkConfig()
RomSave ==
  /\ eeprom' = SaveNetworkConfig(networkConfig)
  /\ ev' = <<"save">>
  /\ UNCHANGED networkConfig
  /\ UNCHANGED romFrame

\* loadNetworkConfig()
RomLoad ==
  /\ LET loaded == LoadNetworkConfig(networkConfig, eeprom)
     IN /\ networkConfig' = loaded.cfg
        /\ ev' = <<IF loaded.ok THEN "load.ok" ELSE "load.fail">>
  /\ UNCHANGED eeprom
  /\ UNCHANGED romFrame

\* The stored guard byte is overwritten with another value.
RomSpoil ==
  /\ GuardMatches(eeprom)
  /\ \E g \in OtherGuards : eeprom' = [eeprom EXCEPT !.magic = g]
  /\ ev' = <<"spoil">>
  /\ UNCHANGED networkConfig
  /\ UNCHANGED romFrame

RomNext == RomEdit \/ RomSave \/ RomLoad \/ RomSpoil

SpecRom == RomInit /\ [][RomNext]_vars

\* C22: a save sets the guard byte and stores the live record, so that a
\* load after it succeeds and yields that record whatever the live record
\* has become; a load that finds another guard byte reports failure and
\* leaves the live record as it was.
C22_SaveLoadRoundTrip ==
  /\ [][ev' = <<"save">> =>
          \A live \in RomConfigs :
            LoadNetworkConfig(live, eeprom') = [ok |-> TRUE, cfg |-> networkConfig]]_vars
  /\ [][ev' = <<"load.ok">> =>
          (GuardMatches(eeprom) /\ networkConfig' = eeprom.cfg)]_vars
  /\ [][ev' = <<"load.fail">> =>
          (~GuardMatches(eeprom) /\ networkConfig' = networkConfig)]_vars
  /\ [][(~GuardMatches(eeprom) /\ ev' \in {<<"load.ok">>, <<"load.fail">>})
          => (ev' = <<"load.fail">> /\ networkConfig' = networkConfig)]_vars

\* A record was saved, the live record changed, and the load brought the
\* saved record back.
C22_Witness ==
  /\ ev = <<"load.ok">>
  /\ GuardMatches(eeprom)
  /\ networkConfig = eeprom.cfg
  /\ networkConfig.hostname = "reactor-2"


----------------------------------------------------------------------------
(* A sync cycle that gives up.                                              *)

\* The queries among the calls e.
Queries(e) ==
  Cardinality({i \in 1..Len(e) : e[i] \in {"ntp.query.ok", "ntp.query.fail"}})

\* The step about to be taken calls handleNTPUpdates(true): setup's forced
\* sync (line 813) or POST /api/time (line 471).
ForcedCall == netpc = "forcedSync" \/ Made(ev', "http.post.time")

\* What a cycle does, whatever ended the one before it: at most
\* 1 + NtpRetries queries, no commit unless a query succeeded, and the
\* timestamp set to the time of the cycle.
CycleIsBounded ==
  Made(ev', "ntp.cycle") =>
    /\ Queries(ev') <= 1 + NtpRetries
    /\ ~Made(ev', "ntp.query.ok") =>
         /\ ~Made(ev', "commit.ok") /\ ~Made(ev', "commit.fail")
         /\ UNCHANGED <<globalDateTime, rtcHW>>
    /\ ntpUpdateTimestamp' = millis'

\* C23: a cycle asks the time source at most four times and, when every
\* query failed, commits nothing and records its time; the cycle after one
\* that gave up runs no sooner than NTP_MIN_SYNC_INTERVAL later, and no
\* sooner than NTP_UPDATE_INTERVAL later unless it is forced.
C23_GiveUpIsRateLimited ==
  [][/\ CycleIsBounded
     /\ (Made(ev', "ntp.cycle") /\ lastCycle = "gave_up") =>
          /\ millis - ntpUpdateTimestamp >= NTP_MIN_SYNC_INTERVAL
          /\ ~ForcedCall => millis - ntpUpdateTimestamp > NTP_UPDATE_INTERVAL]_vars

\* C23 as stated: after a cycle that gave up, no cycle at all runs until
\* NTP_UPDATE_INTERVAL has passed.
C23_NoCycleBeforeInterval ==
  [][/\ CycleIsBounded
     /\ (Made(ev', "ntp.cycle") /\ lastCycle = "gave_up") =>
          millis - ntpUpdateTimestamp > NTP_UPDATE_INTERVAL]_vars

\* Four queries failed and the cycle gave up.
C23_Witness ==
  /\ Made(ev, "ntp.cycle")
  /\ Count("ntp.query.fail") = 1 + NtpRetries
  /\ ~Made(ev, "commit.ok") /\ ~Made(ev, "commit.fail")
  /\ lastCycle = "gave_up"
  /\ ntpUpdateTimestamp = millis


----------------------------------------------------------------------------
(* The startup barrier under fair scheduling, checked under SpecBootFair.   *)

\* An initialization sequence does not run to completion: serialMutex,
\* dateTimeMutex or statusMutex could not be allocated, or a step of setup()
\* did not return.
SetupStopped ==
  \/ pc["core0"] # "setup" /\ serialMutex = "null"
  \/ AllocationFailed
  \/ pc["core0"] = "fault"

\* C24: each core sets its own flag before it waits for the other's, a flag
\* that is true stays true, and unless an allocation fails or a setup step
\* does not return both cores eventually are past the barrier.
C24_BarrierIsPassed ==
  /\ [](pc["core0"] = "barrier" => core0setupComplete)
  /\ [](pc["core1"] = "barrier1" => core1setupComplete)
  /\ [][core0setupComplete => core0setupComplete']_vars
  /\ [][core1setupComplete => core1setupComplete']_vars
  /\ <>(SetupStopped \/ (Core0Steady /\ Core1Steady))

\* Every allocation succeeded, every step returned, both cores are past the
\* barrier.
C24_Witness ==
  /\ ~SetupStopped
  /\ Core0Steady /\ Core1Steady
  /\ core0setupComplete /\ core1setupComplete


----------------------------------------------------------------------------
(* Range validation of the WallClock, checked under SpecTime.               *)

\* The tests of lines 490-491 on the fields the model follows.
InRange(d) == d.year \in 2000..2099 /\ d.month \in 1..12

\* A memcpy into globalDateTime has written the year and not yet the month
\* (lines 668, 949, 964).
MidCopy ==
  \/ pc["core0"] = "c_wr_month"
  \/ pc["rtc"] \in {"init_wr_month", "loop_wr_month"}

\* C25: once globalDateTime has been written, and while no copy into it is
\* under way, its fields are within the validated ranges.
C25_GlobalIsInRange ==
  (globalDateTime # ZeroDateTime /\ ~MidCopy) => InRange(globalDateTime)


----------------------------------------------------------------------------
(* The periodic sample against a commit, checked under SpecTime.            *)

\* manageRTC starts the copy of line 964.
SampleOverwrites == pc["rtc"] = "loop_wr_year" /\ pc'["rtc"] = "loop_wr_month"

\* C26: once a commit has returned success, manageRTC does not replace the
\* value in globalDateTime by a sample it read from the RTC before that commit
\* wrote it.
C26_NoStaleOverwrite ==
  [][~(SampleOverwrites /\ stale = "committed" /\ sample # globalDateTime)]_vars


----------------------------------------------------------------------------
(* The responses of POST /api/time, checked under SpecNet.                  *)

\* The calls of server.send among the calls e.
Responses(e) ==
  Cardinality({i \in 1..Len(e) : e[i] \in {"send.200", "send.400", "send.500"}})

\* C28: a POST /api/time is answered exactly once.
C28_OneResponse ==
  (Len(ev) > 0 /\ ev[1] = "http.post.time") => Responses(ev) = 1


----------------------------------------------------------------------------
(* The mutexes at their first use, checked under SpecBoot.                  *)

\* A context is about to call xSemaphoreTake(statusMutex, ...): setLEDcolour
\* in setupWebServer (line 564) and in setup1 (lines 864, 872, 874),
\* statusLEDs (line 908), managePower (lines 1050-1054).
AtStatusTake ==
  \/ pc["core0"] = "webserver_led"
  \/ pc["core1"] \in {"create_tasks", "tasks_created"}
  \/ monpc["led"] = "loop"
  \/ monpc["pwr"] \in {"led", "publish"}

\* A context is about to call xSemaphoreTake(dateTimeMutex, ...):
\* updateGlobalDateTime (line 649), getGlobalDateTime (line 635), manageRTC
\* (line 962).
AtDateTimeTake ==
  \/ \E t \in {"core0", "term"} : pc[t] \in {"c_take", "r_take"}
  \/ pc["rtc"] = "loop_take"

\* C27: no context reaches a take of statusMutex or of dateTimeMutex while
\* the mutex has not been created.
C27_MutexExistsAtTake ==
  /\ AtStatusTake => statusMutex # "null"
  /\ AtDateTimeTake => dateTimeMutex # "null"


----------------------------------------------------------------------------
(* Deadlock freedom of the three mutexes, checked under SpecLockFair.       *)

Mutexes == {"serialMutex", "dateTimeMutex", "statusMutex"}

\* The context that holds the mutex t is waiting for, "none" when t is not
\* at a take or the mutex is free.
WaitsFor(t) ==
  IF t \in Contexts /\ AtTake(t) /\ Holder(Head(todo[t]).m) \in Contexts
    THEN Holder(Head(todo[t]).m)
    ELSE "none"

\* The context n waits-for steps away from t.
RECURSIVE Follow(_, _)
Follow(t, n) == IF n = 0 THEN t ELSE WaitsFor(Follow(t, n - 1))

\* No context waits, directly or through others, for a mutex it holds.
NoWaitCycle ==
  \A t \in Contexts : \A n \in 1..Cardinality(Contexts) : Follow(t, n) # t

\* C29: no cycle of contexts each waiting for a mutex another one holds, and
\* every context that holds a mutex gives it eventually: a mutex passes from
\* one holder to the next through xSemaphoreGive, so each mutex is free
\* again and again.
C29_DeadlockFree ==
  /\ []NoWaitCycle
  /\ \A m \in Mutexes : []<>(Holder(m) = "free")

\* A context holds dateTimeMutex and waits for serialMutex, which another
\* context holds.
C29_Witness ==
  \E t \in Contexts :
    /\ Holder("dateTimeMutex") = t
    /\ AtTake(t) /\ Head(todo[t]).m = "serialMutex"
    /\ WaitsFor(t) \in Contexts \ {t}

====
